---- MODULE Spec2Model ----
(***************************************************************************)
(* Central-bank speech monitor (src/main.py): the polling loop             *)
(* monitor_loop, the end-of-speech detector speech_just_ended, the tone    *)
(* classifier classify_tone and the notifier send_email.                   *)
(*                                                                         *)
(* A page text is a sequence of segments [s, n]: n characters whose        *)
(* content is the word s, or n characters of running text when s is        *)
(* Filler.  Running text contains no word of the model.                    *)
(***************************************************************************)
EXTENDS Integers, Sequences, FiniteSets, TLC

\* ------------------------------------------------------------------ bounds
NumBanks == 2          \* how many of the six configured banks are polled
MaxTime == 45          \* the wall clock is not advanced beyond this second
LongMaxTime == 60      \* the same for the longer run with one live page

\* ------------------------------------------------------- program constants
MinLength == 800       \* len(new_text) < 800
Window == 600          \* new_text.lower()[-600:]
Debounce == 35         \* .seconds > 35
MinGrowth == 400       \* len(last_texts[bank]) + 400
CycleDelay == 7        \* asyncio.sleep(7)
BackoffDelay == 15     \* asyncio.sleep(15)
Day == 86400           \* timedelta.seconds counts within one day
None == -1             \* speech_end_time[bank] is None

AllBanks == <<"Fed", "ECB", "BOE", "RBNZ", "BOC", "RBA">>
BANKS == SubSeq(AllBanks, 1, NumBanks)
BankNames == {BANKS[k] : k \in 1..NumBanks}

end_phrases ==
  {"thank you", "questions", "press conference", "i am happy to take", "q&a", "moderator"}

\* --------------------------------------------------------------- page texts
Filler == "..."
Fill(n) == [s |-> Filler, n |-> n]
Word(s, n) == [s |-> s, n |-> n]

\* str.lower() on the words that occur in the pages
LowerWord(s) ==
  CASE s = "Thank you" -> "thank you"
    [] s = "QUESTIONS" -> "questions"
    [] s = "Press Conference" -> "press conference"
    [] OTHER -> s

\* new_text.lower()
Lower(t) == [j \in DOMAIN t |-> [s |-> LowerWord(t[j].s), n |-> t[j].n]]

RECURSIVE TextLen(_)
\* len(new_text)
TextLen(t) == IF t = <<>> THEN 0 ELSE t[Len(t)].n + TextLen(SubSeq(t, 1, Len(t) - 1))

RECURSIVE LastChars(_, _)
\* t[-w:], the last w characters of t; a word that is cut is no longer that word
LastChars(t, w) ==
  IF t = <<>> \/ w <= 0 THEN <<>>
  ELSE LET last == t[Len(t)]
           rest == SubSeq(t, 1, Len(t) - 1)
       IN IF last.n <= w
          THEN Append(LastChars(rest, w - last.n), last)
          ELSE <<Fill(w)>>

\* any(phrase in text for phrase in end_phrases)
AnyPhraseIn(t) == \E j \in DOMAIN t : t[j].s \in end_phrases

\* the pages the sites can serve
Empty == <<>>
Opening == <<Fill(300), Word("Thank you", 9)>>
Agenda == <<Word("Press Conference", 16), Fill(181), Word("moderator", 9), Fill(595)>>
Closing == <<Fill(791), Word("Thank you", 9)>>
Final == <<Fill(791), Word("Thank you", 9), Fill(392), Word("QUESTIONS", 9)>>
Texts == {Empty, Opening, Agenda, Closing, Final}

\* ------------------------------------------------------------ the detector
\* timedelta.seconds of a non-negative difference d of two datetimes
Seconds(d) == d % Day

\* speech_just_ended without the minimum length test of line 52
speech_just_ended_anylength(set, text, t) ==
  IF AnyPhraseIn(LastChars(Lower(text), Window))
  THEN IF set = None
       THEN [ret |-> FALSE, timer |-> t]
       ELSE IF Seconds(t - set) > Debounce
            THEN [ret |-> TRUE, timer |-> set]
            ELSE [ret |-> FALSE, timer |-> set]
  ELSE [ret |-> FALSE, timer |-> None]

\* speech_just_ended with >= 35 for > 35 in line 58
speech_just_ended_early(set, text, t) ==
  IF TextLen(text) < MinLength
  THEN [ret |-> FALSE, timer |-> set]
  ELSE IF AnyPhraseIn(LastChars(Lower(text), Window))
       THEN IF set = None
            THEN [ret |-> FALSE, timer |-> t]
            ELSE IF Seconds(t - set) >= Debounce
                 THEN [ret |-> TRUE, timer |-> set]
                 ELSE [ret |-> FALSE, timer |-> set]
       ELSE [ret |-> FALSE, timer |-> None]

\* speech_just_ended restarting the timer while the debounce has not elapsed
speech_just_ended_refresh(set, text, t) ==
  IF TextLen(text) < MinLength
  THEN [ret |-> FALSE, timer |-> set]
  ELSE IF AnyPhraseIn(LastChars(Lower(text), Window))
       THEN IF set = None
            THEN [ret |-> FALSE, timer |-> t]
            ELSE IF Seconds(t - set) > Debounce
                 THEN [ret |-> TRUE, timer |-> set]
                 ELSE [ret |-> FALSE, timer |-> t]
       ELSE [ret |-> FALSE, timer |-> None]

\* speech_just_ended(bank, new_text) called at time t with speech_end_time[bank] = set;
\* ret is the value returned, timer the value of speech_end_time[bank] afterwards
speech_just_ended(set, text, t) ==
  IF TextLen(text) < MinLength
  THEN [ret |-> FALSE, timer |-> set]
  ELSE IF AnyPhraseIn(LastChars(Lower(text), Window))
       THEN IF set = None
            THEN [ret |-> FALSE, timer |-> t]
            ELSE IF Seconds(t - set) > Debounce
                 THEN [ret |-> TRUE, timer |-> set]
                 ELSE [ret |-> FALSE, timer |-> set]
       ELSE [ret |-> FALSE, timer |-> None]

\* the if condition without the growth test of line 125
Guard_nogrowth(ret, text, last) ==
  ret /\ text # last

\* the if condition asking for growth by the minimum length of line 52
Guard_bigdelta(ret, text, last) ==
  ret /\ TextLen(text) > TextLen(last) + MinLength /\ text # last

\* the condition of the if statement of monitor_loop, given the detector's answer
Guard(ret, text, last) ==
  ret /\ TextLen(text) > TextLen(last) + MinGrowth /\ text # last

\* ---------------------------------------------------------- the classifier
Default == [tone |-> "Neutral", confidence |-> 0, key_sentences |-> <<>>]
\* what json.loads can give for the service's answer
JsonObjects ==
  { [tone |-> "Hawkish", confidence |-> 94, key_sentences |-> <<"s1", "s2">>],
    [tone |-> "Mixed", confidence |-> 50, key_sentences |-> <<>>],
    [confidence |-> 94, key_sentences |-> <<"s1">>],
    [tone |-> "Dovish", key_sentences |-> <<"s1">>],
    [tone |-> "Dovish", confidence |-> 80] }
ServiceOutcomes ==
  {[kind |-> "error"], [kind |-> "non_json"]} \cup {[kind |-> "json", obj |-> o] : o \in JsonObjects}

\* classify_tone(transcript) when the service call ends as outcome
classify_tone(outcome) ==
  IF outcome.kind = "json" THEN outcome.obj ELSE Default

\* ------------------------------------------------------------ the notifier
\* send_email(bank, result, snippet) when the mail relay answers smtp
send_email(result, smtp) ==
  IF ~ ({"tone", "confidence", "key_sentences"} \subseteq DOMAIN result)
  THEN "raised"
  ELSE IF smtp = "ok" THEN "sent" ELSE "failed"

\* ------------------------------------------------------------------- state
VARIABLES
  last_texts,        \* last_texts[bank]
  speech_end_time,   \* speech_end_time[bank], None or a time
  now,               \* datetime.now(), in seconds
  pc,                \* where monitor_loop is
  i,                 \* position of the for loop in BANKS
  new_text,          \* local of monitor_loop, kept while its iteration runs
  result,            \* local of monitor_loop, kept while its iteration runs
  ended,             \* what speech_just_ended returned in this iteration
  accepted,          \* value of the if condition in this iteration
  raised,            \* the call an exception in flight came from, or "none"
  calls,             \* classify_tone and send_email calls made in this iteration
  stale,             \* stale[bank]: a transition was accepted for bank and
                     \* speech_end_time[bank] has not been recorded anew since
  seen               \* seen[bank]: the text extracted at the last poll of bank

vars == <<last_texts, speech_end_time, now, pc, i, new_text, result, ended, accepted,
          raised, calls, stale, seen>>

locals == <<new_text, result, ended, accepted, calls>>

bank == BANKS[i]
NoResult == [unset |-> TRUE]

\* the locals outside an iteration
LocalsCleared ==
  /\ new_text' = Empty
  /\ result' = NoResult
  /\ ended' = FALSE
  /\ accepted' = FALSE
  /\ calls' = <<>>

Init ==
  /\ last_texts = [b \in BankNames |-> Empty]
  /\ speech_end_time = [b \in BankNames |-> None]
  /\ now = 0
  /\ pc = "fetch"
  /\ i = 1
  /\ new_text = Empty
  /\ result = NoResult
  /\ ended = FALSE
  /\ accepted = FALSE
  /\ raised = "none"
  /\ calls = <<>>
  /\ stale = [b \in BankNames |-> FALSE]
  /\ seen = [b \in BankNames |-> Empty]

\* lines 121-126: the page is fetched, its text extracted and the if condition
\* evaluated, speech_just_ended first
Poll ==
  /\ pc = "fetch"
  /\ \E t \in Texts :
       LET r == speech_just_ended(speech_end_time[bank], t, now)
           g == Guard(r.ret, t, last_texts[bank])
       IN /\ new_text' = t
          /\ speech_end_time' = [speech_end_time EXCEPT ![bank] = r.timer]
          /\ ended' = r.ret
          /\ accepted' = g
          /\ stale' = [stale EXCEPT ![bank] =
                         IF g THEN TRUE
                         ELSE IF r.timer # speech_end_time[bank] /\ r.timer # None THEN FALSE
                         ELSE @]
          /\ seen' = [seen EXCEPT ![bank] = t]
          /\ pc' = IF g THEN "classify" ELSE "store"
  /\ UNCHANGED <<last_texts, now, i, result, raised, calls>>

\* line 121: fetch_page raises (network error, timeout)
FetchRaise ==
  /\ pc = "fetch"
  /\ pc' = "except"
  /\ raised' = "fetch_page"
  /\ UNCHANGED <<last_texts, speech_end_time, now, i, locals, stale, seen>>

\* line 129 with the reset of line 131 moved before the notification
Classify_resets ==
  /\ pc = "classify"
  /\ \E o \in ServiceOutcomes :
       /\ result' = classify_tone(o)
       /\ calls' = Append(calls, [op |-> "classify_tone", text |-> new_text, result |-> classify_tone(o)])
  /\ last_texts' = [last_texts EXCEPT ![bank] = Empty]
  /\ pc' = "notify"
  /\ UNCHANGED <<speech_end_time, now, i, new_text, ended, accepted, raised, stale, seen>>

\* line 129
Classify ==
  /\ pc = "classify"
  /\ \E o \in ServiceOutcomes :
       /\ result' = classify_tone(o)
       /\ calls' = Append(calls, [op |-> "classify_tone", text |-> new_text, result |-> classify_tone(o)])
  /\ pc' = "notify"
  /\ UNCHANGED <<last_texts, speech_end_time, now, i, new_text, ended, accepted, raised, stale, seen>>

\* lines 130-131
Notify ==
  /\ pc = "notify"
  /\ \E smtp \in {"ok", "down"} :
       LET out == send_email(result, smtp)
       IN /\ calls' = Append(calls, [op |-> "send_email", text |-> new_text, result |-> result])
          /\ IF out = "raised"
             THEN /\ pc' = "except"
                  /\ raised' = "send_email"
                  /\ UNCHANGED last_texts
             ELSE /\ pc' = "store"
                  /\ last_texts' = [last_texts EXCEPT ![bank] = Empty]
                  /\ UNCHANGED raised
  /\ UNCHANGED <<speech_end_time, now, i, new_text, result, ended, accepted, stale, seen>>

\* line 133 keeping the old text when the new one is empty
Store_unlessempty ==
  /\ pc = "store"
  /\ last_texts' = IF new_text = Empty THEN last_texts
                   ELSE [last_texts EXCEPT ![bank] = new_text]
  /\ pc' = "next"
  /\ UNCHANGED <<speech_end_time, now, i, locals, raised, stale, seen>>

\* line 133 writing one variable shared by all banks
Store_shared ==
  /\ pc = "store"
  /\ last_texts' = [b \in BankNames |-> new_text]
  /\ pc' = "next"
  /\ UNCHANGED <<speech_end_time, now, i, locals, raised, stale, seen>>

\* line 133
Store ==
  /\ pc = "store"
  /\ last_texts' = [last_texts EXCEPT ![bank] = new_text]
  /\ pc' = "next"
  /\ UNCHANGED <<speech_end_time, now, i, locals, raised, stale, seen>>

\* line 120: the for loop takes the next bank, or ends
NextBank ==
  /\ pc = "next"
  /\ IF i < NumBanks
     THEN pc' = "fetch" /\ i' = i + 1
     ELSE pc' = "sleep" /\ i' = i
  /\ LocalsCleared
  /\ UNCHANGED <<last_texts, speech_end_time, now, raised, stale, seen>>

\* line 135, and line 120 again, while the clock stays within horizon
SleepWithin(horizon) ==
  /\ pc = "sleep"
  /\ now + CycleDelay <= horizon
  /\ now' = now + CycleDelay
  /\ pc' = "fetch"
  /\ i' = 1
  /\ UNCHANGED <<last_texts, speech_end_time, locals, raised, stale, seen>>

\* the except branch that starts the new cycle where the old one stopped
BackoffWithin_resume(horizon) ==
  /\ pc = "except"
  /\ now + BackoffDelay <= horizon
  /\ now' = now + BackoffDelay
  /\ pc' = "fetch"
  /\ i' = i
  /\ raised' = "none"
  /\ LocalsCleared
  /\ UNCHANGED <<last_texts, speech_end_time, stale, seen>>

\* lines 136-138, and line 120 again, while the clock stays within horizon
BackoffWithin(horizon) ==
  /\ pc = "except"
  /\ now + BackoffDelay <= horizon
  /\ now' = now + BackoffDelay
  /\ pc' = "fetch"
  /\ i' = 1
  /\ raised' = "none"
  /\ LocalsCleared
  /\ UNCHANGED <<last_texts, speech_end_time, stale, seen>>

Sleep == SleepWithin(MaxTime)

Backoff == BackoffWithin(MaxTime)

Next ==
  \/ Poll
  \/ FetchRaise
  \/ Classify
  \/ Notify
  \/ Store
  \/ NextBank
  \/ Sleep
  \/ Backoff

Spec == Init /\ [][Next]_vars

\* ---------------------------------------------- a longer run, one live page
\* Only the first bank's page has text; the clock runs to LongMaxTime, and the
\* task may once be resumed a day late from asyncio.sleep(7).
PollQuiet == Poll /\ (i = 1 \/ new_text' = Empty)

LongSleep == SleepWithin(LongMaxTime)

LongBackoff == BackoffWithin(LongMaxTime)

\* line 135 when the wall clock has moved on a day more than the delay asked for
Oversleep ==
  /\ pc = "sleep"
  /\ now < Day
  /\ now' = now + CycleDelay + Day
  /\ pc' = "fetch"
  /\ i' = 1
  /\ UNCHANGED <<last_texts, speech_end_time, locals, raised, stale, seen>>

LongNext ==
  \/ PollQuiet
  \/ FetchRaise
  \/ Classify
  \/ Notify
  \/ Store
  \/ NextBank
  \/ LongSleep
  \/ Oversleep
  \/ LongBackoff

LongSpec == Init /\ [][LongNext]_vars

\* the task is resumed when asyncio.sleep(15) of line 138 is over
LongFairSpec == LongSpec /\ WF_vars(LongBackoff)
\* ------------------------------------------------------------------ claims
\* some closing phrase lies wholly within the last Window characters of t,
\* whatever the case of its letters
PhraseInTrailingWindow(t) ==
  \E j \in DOMAIN t :
    /\ LowerWord(t[j].s) \in end_phrases
    /\ TextLen(SubSeq(t, j, Len(t))) <= Window

\* t is a near-completion snapshot
NearCompletion(t) == TextLen(t) >= MinLength /\ PhraseInTrailingWindow(t)

\* C1: when an exception raised while processing a source ends the cycle, no
\* source after it in the visiting order is left unvisited in that cycle.
C1_LaterSourcesStillPolled == pc = "except" => i = NumBanks

\* C2: speech_just_ended returns true only for a near-completion snapshot: not
\* for one shorter than the minimum length, nor for one without a closing
\* phrase in its trailing window.
C2_TrueOnlyNearCompletion == ended => NearCompletion(new_text)

\* a snapshot that is not near-completion was observed while the timer was set
\* and the debounce window had elapsed, and the answer was false
C2_Witness ==
  /\ pc = "store"
  /\ ~ NearCompletion(new_text)
  /\ speech_end_time[bank] # None
  /\ now - speech_end_time[bank] > Debounce
  /\ ~ ended

\* C3: speech_just_ended returns true only if speech_end_time[bank] was set
\* before the call and more than Debounce seconds have passed since; the call
\* that records speech_end_time[bank] returns false.
C3_DebounceSafety ==
  [][(pc = "fetch" /\ ended') =>
       (speech_end_time[bank] # None /\ now - speech_end_time[bank] > Debounce)]_vars

\* the detector has answered true on a timer set more than Debounce seconds ago
C3_Witness ==
  /\ ended
  /\ speech_end_time[bank] # None
  /\ now - speech_end_time[bank] > Debounce

\* C4: after the iteration of an accepted transition, the source's
\* last_texts is empty and its speech_end_time is unset.
C4_ResetOnConsumption ==
  (pc = "next" /\ accepted) => (last_texts[bank] = Empty /\ speech_end_time[bank] = None)

\* C5: after an accepted transition of a source, speech_just_ended does not
\* return true for that source again until its timer has been recorded anew.
C5_TrueOncePerTransition ==
  [][(pc = "fetch" /\ stale[bank]) => ~ ended']_vars

\* C6: after an accepted transition of a source, no transition is accepted for
\* it on a timer recorded before that acceptance.
C6_FreshDebounceAfterAlert ==
  [][(pc = "fetch" /\ stale[bank]) => ~ accepted']_vars

\* C7: after speech_just_ended was called with a snapshot that is not
\* near-completion, the source's speech_end_time is unset.
C7_NotNearCompletionClearsTimer ==
  (pc \in {"store", "next"} /\ ~ NearCompletion(new_text)) => speech_end_time[bank] = None

\* C8: after an observation whose snapshot is empty or equal to the stored
\* last_texts, the source's speech_end_time is unset.
C8_EmptyOrUnchangedClearsTimer ==
  (pc = "store" /\ ~ accepted /\ (new_text = Empty \/ new_text = last_texts[bank]))
    => speech_end_time[bank] = None

\* C9: classify_tone and send_email are called for a source only if
\* speech_just_ended returned true and the new snapshot is more than MinGrowth
\* characters longer than the stored last_texts and differs from it.
C9_GrowthGuard ==
  pc \in {"classify", "notify"} =>
    /\ ended
    /\ TextLen(new_text) > TextLen(last_texts[bank]) + MinGrowth
    /\ new_text # last_texts[bank]

\* classify_tone has been called and send_email is about to be
C9_Witness == pc = "notify" /\ Len(calls) = 1 /\ last_texts[bank] # Empty

\* C10: send_email never raises to monitor_loop, whatever classify_tone returned.
C10_NotifierNeverRaises == raised # "send_email"

\* a Judgment: the three fields, and a tone of the enumeration
Tones == {"Hawkish", "Neutral", "Dovish"}
WellFormed(r) ==
  /\ DOMAIN r = {"tone", "confidence", "key_sentences"}
  /\ r.tone \in Tones

\* C11: what classify_tone returns to monitor_loop is a well-formed Judgment
\* whose tone is Hawkish, Neutral or Dovish, whatever the service answered.
C11_ClassifierWellFormed == result # NoResult => WellFormed(result)

\* C12: a step taken while one source is processed leaves last_texts and
\* speech_end_time of every other source unchanged.
C12_SourceIndependence ==
  [][\A b \in BankNames :
       b # bank => (last_texts'[b] = last_texts[b] /\ speech_end_time'[b] = speech_end_time[b])]_vars

\* a source has been processed to the end of an accepted iteration while
\* another source holds a snapshot and a running timer of its own
C12_Witness ==
  /\ pc = "next" /\ accepted
  /\ \E b \in BankNames :
       /\ b # bank
       /\ last_texts[b] # Empty /\ last_texts[b] # last_texts[bank]
       /\ speech_end_time[b] # None /\ speech_end_time[b] # speech_end_time[bank]

\* C13: an exception that ends a cycle is followed by a wait of BackoffDelay,
\* longer than CycleDelay, and then by a new cycle from the first source; while
\* the clock of the model can still advance, that new cycle always begins.
C13_OuterLoopRecovery ==
  /\ [][pc = "except" =>
          /\ pc' = "fetch" /\ i' = 1
          /\ now' = now + BackoffDelay
          /\ BackoffDelay > CycleDelay]_vars
  /\ (pc = "except" /\ now + BackoffDelay <= LongMaxTime)
       ~> (pc = "fetch" /\ i = 1 /\ raised = "none")

\* a new cycle has begun after send_email raised: the snapshot of the alert
\* was fetched but never stored
C13_Witness ==
  /\ pc = "fetch" /\ i = 1 /\ raised = "none"
  /\ stale[BANKS[1]]
  /\ seen[BANKS[1]] # last_texts[BANKS[1]]

\* C14: a near-completion snapshot observed while speech_end_time[bank] is set
\* and more than Debounce seconds after it makes speech_just_ended return true,
\* however long the time elapsed.
C14_DebounceCompleteness ==
  [][(/\ pc = "fetch" /\ pc' # "except"
      /\ NearCompletion(new_text')
      /\ speech_end_time[bank] # None
      /\ now - speech_end_time[bank] > Debounce) => ended']_vars

\* C15: when speech_just_ended returns true for a source, the snapshot of that
\* source's previous poll, taken since the timer was recorded, was
\* near-completion too.
C15_ContinuousNearCompletion ==
  [][(pc = "fetch" /\ ended') => NearCompletion(seen[bank])]_vars

\* C16: a near-completion snapshot observed while speech_end_time[bank] is set
\* leaves speech_end_time[bank] as it was, whether the answer is false or true.
C16_TimerKept ==
  [][(/\ pc = "fetch" /\ pc' # "except"
      /\ speech_end_time[bank] # None
      /\ NearCompletion(new_text')) => speech_end_time'[bank] = speech_end_time[bank]]_vars

\* the answer was false on a timer recorded at an earlier poll, which is kept
C16_Witness ==
  /\ pc = "store" /\ ~ ended
  /\ NearCompletion(new_text)
  /\ speech_end_time[bank] # None /\ speech_end_time[bank] < now

\* the two calls of an accepted iteration, on its snapshot and its result
ClassifyCall == [op |-> "classify_tone", text |-> new_text, result |-> result]
NotifyCall == [op |-> "send_email", text |-> new_text, result |-> result]

\* C17: in an accepted iteration classify_tone is called once on the snapshot,
\* then send_email once on its result and the same snapshot, and the source's
\* state changes only after both; otherwise neither is called.
C17_PipelineOrder ==
  /\ [](/\ pc = "classify" => calls = <<>>
        /\ pc = "notify" => calls = <<ClassifyCall>>
        /\ ((accepted /\ pc \in {"store", "next"}) \/ raised = "send_email")
             => calls = <<ClassifyCall, NotifyCall>>
        /\ ~ accepted => calls = <<>>)
  /\ [][(accepted' /\ Len(calls') < 2)
          => (last_texts' = last_texts /\ speech_end_time' = speech_end_time)]_vars

\* an accepted iteration is over, with both calls made
C17_Witness == pc = "next" /\ accepted /\ calls = <<ClassifyCall, NotifyCall>>

\* C18: when last_texts[bank] is empty and speech_just_ended returns true, the
\* if condition holds and the transition is accepted.
C18_EmptyBaseline == (ended /\ last_texts[bank] = Empty) => accepted

\* the detector answered true over an empty baseline, classify_tone is next
C18_Witness == pc = "classify" /\ ended /\ last_texts[bank] = Empty

\* C19: after an iteration without exception and without accepted transition,
\* last_texts[bank] is the snapshot fetched in it.
C19_SnapshotStored == (pc = "next" /\ ~ accepted) => last_texts[bank] = new_text

\* an empty snapshot has been stored over a longer one
C19_Witness ==
  /\ pc = "next" /\ ~ accepted
  /\ new_text = Empty /\ last_texts[bank] = Empty
  /\ speech_end_time[bank] # None

\* C20: a transition is accepted at a poll only if the snapshot is more than
\* MinGrowth characters longer than the one of the source's previous poll; a
\* page that is the same as at the previous poll produces no alert.
C20_AlertNeedsGrowthSincePreviousPoll ==
  [][(pc = "fetch" /\ accepted') =>
       (new_text' # seen[bank] /\ TextLen(new_text') > TextLen(seen[bank]) + MinGrowth)]_vars
====
